---- MODULE Spec2Model ----
(***************************************************************************)
(* A model of src/mod.ts: encode (nested value -> flat bracket-keyed       *)
(* pairs) and decode (flat pairs -> nested value).                         *)
(*                                                                         *)
(* A JavaScript string that is used as a key is a sequence of one-         *)
(* character strings, so that building a key (template literals) and       *)
(* parsing it (split on a regular expression) are computed, not assumed.   *)
(* A nested value that decode builds is a function from paths (sequences   *)
(* of property names) to nodes; the root object is at the empty path.      *)
(* Property names are drawn from letters and digits; names that an object  *)
(* or an array inherits or owns by itself (__proto__, constructor,         *)
(* length, ...) are outside the alphabet of the model.                     *)
(***************************************************************************)
EXTENDS Integers, Sequences, FiniteSets, TLC

VARIABLES
    data,        \* encode's argument, or NoData when the caller fills the FormData
    formData,    \* the FormData: the sequence of [key, value] entries that encode
                 \* returned or, when the caller fills it, that decode has read so far
    pos,         \* number of entries of formData the decode loop has consumed
    entry,       \* the entry the decode loop took last (NoEntry before the first)
    result,      \* decode's local `result`
    threw,       \* a TypeError left decode
    pc,          \* where the run is
    emptyString, \* the empty-string mode the caller asks for
    rawKey,      \* the raw key handed to the path parser
    keys         \* the parsed path of rawKey

vars == <<data, formData, pos, entry, result, threw, pc, emptyString, rawKey, keys>>

-----------------------------------------------------------------------------
(* Bounds *)

\* entries one decode call consumes in Spec and SpecOptions
MaxPairs == 2
\* segments of a key that the caller appends in Spec
MaxPathLen == 3
\* characters of a raw key in SpecParse
MaxRawLen == 5
\* containers nested in encode's argument, and its number of nodes
MaxDepth == 3
MaxSize == 3

-----------------------------------------------------------------------------
(* Strings and the two regular expressions *)

DigitChars == {"0", "1", "2", "3", "4", "5", "6", "7", "8", "9"}

\* /^\d+$/.test(s)
TestDigits(s) == Len(s) >= 1 /\ \A i \in 1..Len(s) : s[i] \in DigitChars

\* a character the class [\[\]] matches
IsBracket(c) == c = "[" \/ c = "]"

\* first index >= i of s that holds no bracket, Len(s)+1 when there is none:
\* where a match of /[\[\]]+/ that starts at i ends
RECURSIVE RunEnd(_, _)
RunEnd(s, i) ==
    IF i > Len(s) \/ ~IsBracket(s[i]) THEN i ELSE RunEnd(s, i + 1)

\* s.split(/[\[\]]+/) from index i on, piece being the text since the last match
RECURSIVE SplitFrom(_, _, _, _)
SplitFrom(s, i, piece, acc) ==
    IF i > Len(s) THEN Append(acc, piece)
    ELSE IF IsBracket(s[i]) THEN SplitFrom(s, RunEnd(s, i), <<>>, Append(acc, piece))
    ELSE SplitFrom(s, i + 1, Append(piece, s[i]), acc)

Split(s) == SplitFrom(s, 1, <<>>, <<>>)

\* the filter is missing
FilterNothing(pieces) == pieces

\* .filter((key) => key.length)
FilterNonEmpty(pieces) == SelectSeq(pieces, LAMBDA k : Len(k) # 0)

\* rawKey.split(/[\[\]]+/).filter((key) => key.length)
ParsePath(raw) == FilterNonEmpty(Split(raw))

-----------------------------------------------------------------------------
(* Nested values as decode builds them *)

\* a string, a File (an object, like a mapping or an array), {} and []
Str(s) == [kind |-> "str", val |-> s]
File == [kind |-> "file", val |-> "f"]
Obj == [kind |-> "obj", val |-> ""]
Arr == [kind |-> "arr", val |-> ""]

\* typeof n === "object": a property of n can be assigned
IsContainer(n) == n.kind \in {"obj", "arr", "file"}

IsPrefix(p, q) == Len(p) <= Len(q) /\ SubSeq(q, 1, Len(p)) = p
StrictPrefix(p, q) == Len(p) < Len(q) /\ SubSeq(q, 1, Len(p)) = p
Comparable(p, q) == IsPrefix(p, q) \/ IsPrefix(q, p)

\* const result = {}
EmptyResult == (<<>> :> Obj)

\* the if is missing: a child is created at every step
AlwaysCreate(T, p) == TRUE

\* !current[key], for the property at path p: absent (undefined) or the empty string
Falsy(T, p) == p \notin DOMAIN T \/ T[p] = Str("")

\* the assignment replaces the container it is made in: only the path to p is kept
SetPropAlone(T, p, node) ==
    [q \in ({r \in DOMAIN T : IsPrefix(r, p)} \cup {p}) |->
        IF q = p THEN node ELSE T[q]]

\* current[key] = node, for the property at path p: the old value (and all below it)
\* is dropped
SetProp(T, p, node) ==
    [q \in ({r \in DOMAIN T : ~StrictPrefix(p, r)} \cup {p}) |->
        IF q = p THEN node ELSE T[q]]

\* the test of the next key is missing: every new container is a mapping
NewChildObject(keys_, i) == Obj

\* the container setNestedValue creates at keys[i]
NewChild(keys_, i) == IF TestDigits(keys_[i + 1]) THEN Arr ELSE Obj

\* The loop of setNestedValue from index i on, `current` being the value at path cur.
\* A non-empty string is truthy, so the walk descends into it; every later step then
\* reads a character of it or assigns a property of a primitive string, and the
\* assignment throws a TypeError (a module is strict code) with T untouched.
RECURSIVE Walk(_, _, _, _, _)
Walk(T, cur, keys_, i, value) ==
    IF i > Len(keys_) THEN [tree |-> T, threw |-> FALSE]
    ELSE IF ~IsContainer(T[cur]) THEN [tree |-> T, threw |-> TRUE]
    ELSE LET child == Append(cur, keys_[i]) IN
        IF i = Len(keys_)
        THEN Walk(SetProp(T, child, value), cur, keys_, i + 1, value)
        ELSE Walk(IF Falsy(T, child) THEN SetProp(T, child, NewChild(keys_, i)) ELSE T,
                  child, keys_, i + 1, value)

setNestedValue(target, keys_, value) == Walk(target, <<>>, keys_, 1, value)

\* an entry whose value is the empty string or only whitespace is skipped
DecodeEntrySkipBlank(T, e) ==
    IF e.value \in {Str(""), Str(" ")} THEN [tree |-> T, threw |-> FALSE]
    ELSE setNestedValue(T, ParsePath(e.key), e.value)

\* one iteration of decode's for-of loop
DecodeEntry(T, e) == setNestedValue(T, ParsePath(e.key), e.value)

-----------------------------------------------------------------------------
(* Keys that follow the bracket convention *)

\* name([segment])* for a path: the first segment bare, the others in brackets
RECURSIVE KeyOf(_)
KeyOf(p) ==
    IF Len(p) = 0 THEN <<>>
    ELSE IF Len(p) = 1 THEN p[1]
    ELSE KeyOf(SubSeq(p, 1, Len(p) - 1)) \o <<"[">> \o p[Len(p)] \o <<"]">>

NoData == [kind |-> "none"]
NoEntry == [key |-> <<>>, value |-> Str(""), none |-> TRUE]
MkEntry(k, v) == [key |-> k, value |-> v, none |-> FALSE]

\* segments below the top level of the keys a caller appends
Segs == {<<"a">>, <<"0">>, <<"1">>}

RECURSIVE PathsFrom(_, _)
PathsFrom(p, n) ==
    {p} \cup (IF n = 0 THEN {}
              ELSE UNION {PathsFrom(Append(p, s), n - 1) : s \in Segs})

\* the keys a caller appends: the paths below a, a second top-level name, and an
\* index written with a leading zero
PairKeys ==
    {KeyOf(p) : p \in PathsFrom(<< <<"a">> >>, MaxPathLen - 1)
                      \cup {<< <<"b">> >>, << <<"a">>, <<"0", "1">> >>}}

\* FormData values: a non-empty string and the empty string
PairValues == {Str("x"), Str("")}

-----------------------------------------------------------------------------
(* encode *)

Null == [kind |-> "null", val |-> ""]
Undefined == [kind |-> "undefined", val |-> ""]
\* a Blob that is no File: an object without own enumerable properties
Blob == [kind |-> "blob", val |-> "b", items |-> <<>>]
ArrayOf(items) == [kind |-> "arr", items |-> items]
ObjectOf(items) == [kind |-> "obj", items |-> items]
Prop(k, v) == [key |-> k, value |-> v]

DigitSeq == <<"0", "1", "2", "3", "4", "5", "6", "7", "8", "9">>

\* `${index}`: the decimal digits of a number
RECURSIVE ToDecimal(_)
ToDecimal(n) ==
    IF n < 10 THEN <<DigitSeq[n + 1]>>
    ELSE ToDecimal(n \div 10) \o <<DigitSeq[(n % 10) + 1]>>

\* `${key}[${subKey}]`
SubKey(key, subKey) == key \o <<"[">> \o subKey \o <<"]">>

\* formData.append(key, value)
FormAppend(fd, key, value) == Append(fd, MkEntry(key, [kind |-> value.kind, val |-> value.val]))

\* typeof value === "object" && !(value instanceof File)
IsObjectNotFile(value) == value.kind \in {"arr", "obj", "blob"}

\* appendValue, with value.forEach(...) from item i on and the for-in loop from
\* property i on. The items of an object are its own enumerable properties in
\* iteration order.
RECURSIVE appendValue(_, _, _), ForEachItem(_, _, _, _), ForInProp(_, _, _, _)
RECURSIVE ForEachReversed(_, _, _, _)
appendValue(fd, key, value) ==
    IF value.kind \in {"null", "undefined"} THEN fd
    ELSE IF IsObjectNotFile(value)
         THEN IF value.kind = "arr" THEN ForEachItem(fd, key, value.items, 1)
              ELSE ForInProp(fd, key, value.items, 1)
    ELSE FormAppend(fd, key, value)

\* the items are walked from the last to the first
ForEachReversed(fd, key, items, i) ==
    IF i > Len(items) THEN fd
    ELSE appendValue(ForEachReversed(fd, key, items, i + 1),
                     SubKey(key, ToDecimal(i - 1)), items[i])

ForEachItem(fd, key, items, i) ==
    IF i > Len(items) THEN fd
    ELSE ForEachItem(appendValue(fd, SubKey(key, ToDecimal(i - 1)), items[i]),
                     key, items, i + 1)

ForInProp(fd, key, items, i) ==
    IF i > Len(items) THEN fd
    ELSE ForInProp(appendValue(fd, SubKey(key, items[i].key), items[i].value),
                   key, items, i + 1)

\* for (const key in data) appendValue(key, data[key])
RECURSIVE ForInData(_, _, _)
ForInData(fd, items, i) ==
    IF i > Len(items) THEN fd
    ELSE ForInData(appendValue(fd, items[i].key, items[i].value), items, i + 1)

encode(d) == ForInData(<<>>, d.items, 1)

-----------------------------------------------------------------------------
(* The arguments of encode *)

\* property names of the objects handed to encode: two names, an all-digit key,
\* the empty key and a key that holds a bracket
ObjKeys == {<<"a">>, <<"b">>, <<"0">>, <<>>, <<"a", "]">>}

Leaves == {Str("x"), Str(""), File, Blob, Null, Undefined}

\* a canonical array index ("0", "7", "10"; not "01"): such keys of an object are
\* iterated first, in ascending order
IsIndexKey(k) == TestDigits(k) /\ (Len(k) = 1 \/ k[1] # "0")

RECURSIVE NumOf(_)
NumOf(k) ==
    IF Len(k) = 0 THEN 0
    ELSE 10 * NumOf(SubSeq(k, 1, Len(k) - 1))
         + (CHOOSE d \in 0..9 : DigitSeq[d + 1] = k[Len(k)])

\* k may follow the keys of items in an object's iteration order
MayFollow(items, k) ==
    \A i \in 1..Len(items) :
        /\ items[i].key # k
        /\ IsIndexKey(k) => (IsIndexKey(items[i].key) /\ NumOf(items[i].key) < NumOf(k))

\* number of nodes of a value
RECURSIVE SizeOf(_), SizeOfItems(_, _)
SizeOf(v) ==
    IF v.kind = "arr" THEN 1 + SizeOfItems(v.items, FALSE)
    ELSE IF v.kind = "obj" THEN 1 + SizeOfItems(v.items, TRUE)
    ELSE 1

SizeOfItems(items, props) ==
    IF Len(items) = 0 THEN 0
    ELSE (IF props THEN SizeOf(items[1].value) ELSE SizeOf(items[1]))
         + SizeOfItems(Tail(items), props)

\* values of at most n nodes that nest containers at most d deep; sequences of
\* such values; property lists of such values that extend `items`
RECURSIVE ValuesOf(_, _), ItemSeqs(_, _), PropSeqs(_, _, _)
ValuesOf(d, n) ==
    IF n < 1 THEN {}
    ELSE Leaves \cup
         (IF d < 1 THEN {}
          ELSE {ArrayOf(s) : s \in ItemSeqs(d - 1, n - 1)}
               \cup {ObjectOf(s) : s \in PropSeqs(d - 1, n - 1, <<>>)})

ItemSeqs(d, n) ==
    {<<>>} \cup UNION {{<<v>> \o rest : rest \in ItemSeqs(d, n - SizeOf(v))} :
                          v \in ValuesOf(d, n)}

PropSeqs(d, n, items) ==
    {items} \cup UNION {PropSeqs(d, n - SizeOf(v), Append(items, Prop(k, v))) :
                           <<k, v>> \in {kv \in ObjKeys \X ValuesOf(d, n) :
                                             MayFollow(items, kv[1])}}

\* the objects of at most n properties and values below them, nested at most d deep
ObjectsOf(d, n) == {ObjectOf(s) : s \in PropSeqs(d - 1, n, <<>>)}

-----------------------------------------------------------------------------
(* decode over the entries of an arbitrary FormData *)

Init ==
    /\ data = NoData
    /\ formData = <<>>
    /\ pos = 0
    /\ entry = NoEntry
    /\ result = EmptyResult
    /\ threw = FALSE
    /\ pc = "loop"
    /\ emptyString = "keep"
    /\ rawKey = <<>>
    /\ keys = <<>>

\* one iteration of for (const [rawKey, value] of formData.entries()) on entry e
Iterate(e) ==
    LET r == DecodeEntry(result, e)
    IN  /\ entry' = e
        /\ rawKey' = e.key
        /\ keys' = ParsePath(e.key)
        /\ result' = r.tree
        /\ threw' = r.threw
        /\ pc' = IF r.threw THEN "thrown" ELSE "loop"
        /\ pos' = pos + 1

\* the iterator yields one more entry
DecodeNext ==
    /\ pc = "loop"
    /\ pos < MaxPairs
    /\ \E k \in PairKeys, v \in PairValues :
          /\ Iterate(MkEntry(k, v))
          /\ formData' = Append(formData, MkEntry(k, v))
    /\ UNCHANGED <<data, emptyString>>

\* the iterator is exhausted: return result
DecodeReturn ==
    /\ pc = "loop"
    /\ pc' = "returned"
    /\ UNCHANGED <<data, formData, pos, entry, result, threw, emptyString, rawKey, keys>>

Next == DecodeNext \/ DecodeReturn

Spec == Init /\ [][Next]_vars

-----------------------------------------------------------------------------
(* encode, then decode of what it returned *)

InitCodec ==
    /\ data \in ObjectsOf(MaxDepth, MaxSize)
    /\ formData = <<>>
    /\ pos = 0
    /\ entry = NoEntry
    /\ result = EmptyResult
    /\ threw = FALSE
    /\ pc = "encode"
    /\ emptyString = "keep"
    /\ rawKey = <<>>
    /\ keys = <<>>

\* const formData = encode(data)
Encode ==
    /\ pc = "encode"
    /\ formData' = encode(data)
    /\ pc' = "loop"
    /\ UNCHANGED <<data, pos, entry, result, threw, emptyString, rawKey, keys>>

\* decode(formData): the loop takes the next entry of formData
TakeEntry ==
    /\ pc = "loop"
    /\ pos < Len(formData)
    /\ Iterate(formData[pos + 1])
    /\ UNCHANGED <<data, formData, emptyString>>

\* decode(formData): all entries taken, return result
ReturnResult ==
    /\ pc = "loop"
    /\ pos = Len(formData)
    /\ pc' = "returned"
    /\ UNCHANGED <<data, formData, pos, entry, result, threw, emptyString, rawKey, keys>>

NextCodec == Encode \/ TakeEntry \/ ReturnResult

SpecCodec == InitCodec /\ [][NextCodec]_vars

-----------------------------------------------------------------------------
(* decode called with an empty-string mode *)

OptionKeys == {KeyOf(p) : p \in {<< <<"a">> >>, << <<"b">> >>, << <<"a">>, <<"a">> >>,
                                   << <<"a">>, <<"0">> >>}}

\* a non-empty string, the empty string, a whitespace-only string
OptionValues == {Str("x"), Str(""), Str(" ")}

Modes == {"keep", "set-undefined", "set-null"}

\* decode has one parameter, formData: the mode the caller asks for is never read
InitOptions ==
    /\ data = NoData
    /\ formData = <<>>
    /\ pos = 0
    /\ entry = NoEntry
    /\ result = EmptyResult
    /\ threw = FALSE
    /\ pc = "loop"
    /\ emptyString \in Modes
    /\ rawKey = <<>>
    /\ keys = <<>>

DecodeNextOption ==
    /\ pc = "loop"
    /\ pos < MaxPairs
    /\ \E k \in OptionKeys, v \in OptionValues :
          /\ Iterate(MkEntry(k, v))
          /\ formData' = Append(formData, MkEntry(k, v))
    /\ UNCHANGED <<data, emptyString>>

NextOptions == DecodeNextOption \/ DecodeReturn

SpecOptions == InitOptions /\ [][NextOptions]_vars

-----------------------------------------------------------------------------
(* The path parser alone *)

RawChars == {"a", "0", "[", "]"}

RawKeys == UNION {[1..n -> RawChars] : n \in 0..MaxRawLen}

UsersKey ==
    <<"u", "s", "e", "r", "s", "[", "0", "]", "[", "t", "a", "g", "s", "]", "[", "0", "]">>

InitParse ==
    /\ data = NoData
    /\ formData = <<>>
    /\ pos = 0
    /\ entry = NoEntry
    /\ result = EmptyResult
    /\ threw = FALSE
    /\ pc = "parse"
    /\ emptyString = "keep"
    /\ rawKey \in RawKeys \cup {UsersKey}
    /\ keys = <<>>

\* const keys = rawKey.split(/[\[\]]+/).filter((key) => key.length)
ParseKey ==
    /\ pc = "parse"
    /\ keys' = ParsePath(rawKey)
    /\ pc' = "parsed"
    /\ UNCHANGED <<data, formData, pos, entry, result, threw, emptyString, rawKey>>

NextParse == ParseKey

SpecParse == InitParse /\ [][NextParse]_vars

-----------------------------------------------------------------------------
(* decode as a function of the whole FormData *)

RECURSIVE DecodeFrom(_, _, _)
DecodeFrom(T, fd, i) ==
    IF i > Len(fd) THEN [tree |-> T, threw |-> FALSE]
    ELSE LET r == DecodeEntry(T, fd[i])
         IN  IF r.threw THEN r ELSE DecodeFrom(r.tree, fd, i + 1)

decode(fd) == DecodeFrom(EmptyResult, fd, 1)

PathOf(e) == ParsePath(e.key)

\* the step that took the entry now in `entry` is the step just made
Took == pc = "loop" /\ pos' = pos + 1

-----------------------------------------------------------------------------
(* Properties of decode's loop (Spec) *)

\* C6: decode raises no exception, whatever pairs it has read before: also when a
\* pair's path extends a path that already holds a scalar (a, then a[b]).
C6_NeverThrows == ~threw

\* the step of C7, for a pair that decode stored
C7_Step ==
    (Took /\ ~threw') =>
        \A i \in 1..(Len(keys') - 1) :
            LET p == SubSeq(keys', 1, i)
            IN  IF p \in DOMAIN result
                THEN result'[p] = result[p]
                ELSE result'[p] = (IF TestDigits(keys'[i + 1]) THEN Arr ELSE Obj)

\* C7: at each non-final segment of the walked path, a missing entry is created as an
\* array if and only if the next segment is all digits, otherwise as a mapping, and
\* an entry that exists is descended into and never replaced.
C7_CreateOrDescend == [][C7_Step]_vars

\* C9 as stated: when a prefix is used with an index segment by one pair and with a
\* name segment by a later one (or the other way round), the later pair wins: after
\* it, the container at the prefix has the kind the later pair implies.
C9_LastWins ==
    (~entry.none /\ ~threw) =>
        \A i \in 1..(Len(keys) - 1) : result[SubSeq(keys, 1, i)] = NewChild(keys, i)

\* the step of C9 as amended, for a pair that decode stored
C9_Step ==
    (Took /\ ~threw') =>
        \A p \in DOMAIN result :
            (IsContainer(result[p]) /\ StrictPrefix(p, keys')) =>
                /\ result'[p] = result[p]
                /\ SubSeq(keys', 1, Len(p) + 1) \in DOMAIN result'

\* C9 as amended: the first pair wins. A container that exists at a prefix of the
\* walked path keeps its kind, and the later pair's segment becomes a property of it.
C9_FirstWins == [][C9_Step]_vars

\* C9: the first pair made a container of one kind, the second pair put a segment of
\* the other kind into it
C9_Witness ==
    /\ ~threw
    /\ Len(formData) = 2
    /\ \E i \in 1..(Len(keys) - 1) :
          /\ IsContainer(result[SubSeq(keys, 1, i)])
          /\ result[SubSeq(keys, 1, i)] # NewChild(keys, i)
          /\ SubSeq(keys, 1, i + 1) \in DOMAIN result
          /\ Len(PathOf(formData[1])) > i
          /\ SubSeq(PathOf(formData[1]), 1, i) = SubSeq(keys, 1, i)
          /\ TestDigits(PathOf(formData[1])[i + 1]) # TestDigits(keys[i + 1])

\* the step of C10
C10_Step ==
    Took =>
        /\ \A q \in (DOMAIN result) \cup (DOMAIN result') :
              ~Comparable(q, keys') =>
                  (q \in DOMAIN result /\ q \in DOMAIN result' /\ result'[q] = result[q])
        /\ ~threw' => (keys' \in DOMAIN result' /\ result'[keys'] = entry'.value)

-----------------------------------------------------------------------------
(* Order of arrival (Spec) *)

Perms(n) == {f \in [1..n -> 1..n] : \A a, b \in 1..n : a # b => f[a] # f[b]}
Permute(fd, f) == [i \in 1..Len(fd) |-> fd[f[i]]]

\* distinct keys, no path a proper prefix of another, and a shared prefix always
\* followed by the same kind of segment
OrderFree(fd) ==
    \A i, j \in 1..Len(fd) :
        i # j =>
            /\ fd[i].key # fd[j].key
            /\ ~IsPrefix(PathOf(fd[i]), PathOf(fd[j]))
            /\ \A n \in 1..(Len(PathOf(fd[i])) - 1) :
                  (n < Len(PathOf(fd[j]))
                   /\ SubSeq(PathOf(fd[i]), 1, n) = SubSeq(PathOf(fd[j]), 1, n))
                      => TestDigits(PathOf(fd[i])[n + 1]) = TestDigits(PathOf(fd[j])[n + 1])

\* where the claim places a path: every index segment at the position of its
\* numeric value
Placed(p) ==
    [i \in 1..Len(p) |->
        IF i > 1 /\ TestDigits(p[i]) THEN ToDecimal(NumOf(p[i])) ELSE p[i]]

PlacedByIndex(fd, T) ==
    \A i \in 1..Len(fd) :
        /\ Placed(PathOf(fd[i])) \in DOMAIN T
        /\ T[Placed(PathOf(fd[i]))] = fd[i].value

SameInEveryOrder(fd, T) ==
    \A f \in Perms(Len(fd)) : decode(Permute(fd, f)) = [tree |-> T, threw |-> FALSE]

\* C5: for pairs with distinct keys, no path a proper prefix of another and every
\* shared prefix followed by one kind of segment, decode returns the same structure
\* for every order of the pairs, each element at the position that the numeric value
\* of its index segment names.
C5_PlacedByNumericIndex ==
    (pc = "returned" /\ OrderFree(formData)) =>
        (SameInEveryOrder(formData, result) /\ PlacedByIndex(formData, result))

\* every index segment is a canonical array index (no leading zero)
Canonical(fd) ==
    \A i \in 1..Len(fd) :
        \A n \in 2..Len(PathOf(fd[i])) :
            TestDigits(PathOf(fd[i])[n]) => IsIndexKey(PathOf(fd[i])[n])

\* C5 restricted to canonical index segments: this much holds of the code
C5_CanonicalIndices ==
    (pc = "returned" /\ OrderFree(formData) /\ Canonical(formData)) =>
        (SameInEveryOrder(formData, result) /\ PlacedByIndex(formData, result))

-----------------------------------------------------------------------------
(* The empty-string policy (SpecOptions) *)

\* the empty string or a whitespace-only string
IsBlank(v) == v \in {Str(""), Str(" ")}

\* the step of C4 as stated
C4_Step ==
    (Took /\ ~threw' /\ IsBlank(entry'.value)) =>
        CASE emptyString = "keep" -> result'[keys'] = entry'.value
          [] emptyString = "set-undefined" -> result' = result
          [] emptyString = "set-null" -> result'[keys'] = Null

C4_KeptStep ==
    (Took /\ ~threw' /\ IsBlank(entry'.value)) =>
        (keys' \in DOMAIN result' /\ result'[keys'] = entry'.value)

-----------------------------------------------------------------------------
(* The path parser (SpecParse) *)

\* where a maximal bracket-free run of s starts, and where the run from i ends
RunStarts(s) ==
    {i \in 1..Len(s) : ~IsBracket(s[i]) /\ (i = 1 \/ IsBracket(s[i - 1]))}

RunLast(s, i) ==
    CHOOSE j \in i..Len(s) :
        /\ \A k \in i..j : ~IsBracket(s[k])
        /\ (j = Len(s) \/ IsBracket(s[j + 1]))

\* the start of the n-th run
NthStart(s, n) ==
    CHOOSE i \in RunStarts(s) : Cardinality({j \in RunStarts(s) : j < i}) = n - 1

\* C8: the parser returns exactly the maximal non-empty substrings of the raw key
\* that hold no bracket, from left to right; no segment is empty or holds a bracket;
\* users[0][tags][0] parses to users, 0, tags, 0.
C8_MaximalRuns ==
    pc = "parsed" =>
        /\ Len(keys) = Cardinality(RunStarts(rawKey))
        /\ \A n \in 1..Len(keys) :
              /\ keys[n] = SubSeq(rawKey, NthStart(rawKey, n),
                                  RunLast(rawKey, NthStart(rawKey, n)))
              /\ Len(keys[n]) > 0
              /\ \A k \in 1..Len(keys[n]) : ~IsBracket(keys[n][k])
        /\ rawKey = UsersKey =>
              keys = << <<"u", "s", "e", "r", "s">>, <<"0">>, <<"t", "a", "g", "s">>, <<"0">> >>

\* C8: a raw key with adjacent brackets and a trailing bracket, two segments
C8_Witness ==
    /\ pc = "parsed"
    /\ rawKey = <<"a", "]", "[", "0", "]">>
    /\ keys = << <<"a">>, <<"0">> >>

-----------------------------------------------------------------------------
(* encode and the round trip (SpecCodec) *)

\* the child of container v at position i, and the name of that property
ChildAt(v, i) == IF v.kind = "arr" THEN v.items[i] ELSE v.items[i].value
NameAt(v, i) == IF v.kind = "arr" THEN ToDecimal(i - 1) ELSE v.items[i].key

HasItems(v) == v.kind \in {"arr", "obj"}

\* positions (sequences of child indices) of the nodes of v that are no array or mapping
RECURSIVE LeafPositions(_)
LeafPositions(v) ==
    IF ~HasItems(v) THEN {<<>>}
    ELSE UNION {{<<i>> \o q : q \in LeafPositions(ChildAt(v, i))} : i \in 1..Len(v.items)}

RECURSIVE NodeAt(_, _)
NodeAt(v, q) == IF Len(q) = 0 THEN v ELSE NodeAt(ChildAt(v, q[1]), Tail(q))

\* the property names from the root to position q
RECURSIVE NamesTo(_, _)
NamesTo(v, q) ==
    IF Len(q) = 0 THEN <<>> ELSE <<NameAt(v, q[1])>> \o NamesTo(ChildAt(v, q[1]), Tail(q))

\* the leaf scalars that are neither null nor undefined: strings, Files, Blobs
ScalarPositions(v) ==
    {q \in LeafPositions(v) : NodeAt(v, q).kind \in {"str", "file", "blob"}}

\* the pair the claim expects for the leaf at position q
PairOf(v, q) ==
    MkEntry(KeyOf(NamesTo(v, q)), [kind |-> NodeAt(v, q).kind, val |-> NodeAt(v, q).val])

\* how often pair e occurs in fd, and among the pairs expected for positions Q
CountIn(fd, e) == Cardinality({i \in 1..Len(fd) : fd[i] = e})
CountOf(v, Q, e) == Cardinality({q \in Q : PairOf(v, q) = e})

Encoded == pc \in {"loop", "returned", "thrown"}

\* C2: the pairs that encode emits correspond one to one to the leaf scalars of its
\* argument that are neither null nor undefined; the pair of the leaf at path
\* s0, s1, ..., sn has the key s0[s1]...[sn]; null and undefined yield no pair.
C2_OnePairPerLeaf ==
    Encoded =>
        /\ Len(formData) = Cardinality(ScalarPositions(data))
        /\ \A q \in ScalarPositions(data) :
              CountIn(formData, PairOf(data, q))
                  = CountOf(data, ScalarPositions(data), PairOf(data, q))

\* the leaves that encode emits a pair for: strings and Files
EmittedPositions(v) ==
    {q \in LeafPositions(v) : NodeAt(v, q).kind \in {"str", "file"}}

\* C2 restricted to strings and Files: this much holds of the code
C2_ExceptBlobs ==
    Encoded =>
        /\ Len(formData) = Cardinality(EmittedPositions(data))
        /\ \A q \in EmittedPositions(data) :
              CountIn(formData, PairOf(data, q))
                  = CountOf(data, EmittedPositions(data), PairOf(data, q))

\* position p comes before position q in depth-first pre-order
Before(p, q) ==
    \E k \in 1..Len(p) :
        /\ k <= Len(q)
        /\ SubSeq(p, 1, k - 1) = SubSeq(q, 1, k - 1)
        /\ p[k] < q[k]

\* C3: encode emits its pairs in depth-first pre-order of its argument: properties in
\* iteration order, array items by increasing index, a subtree wholly before the
\* next sibling; the FormData lists the pairs in that order.
C3_PreOrder ==
    Encoded =>
        /\ Len(formData) = Cardinality(EmittedPositions(data))
        /\ \A q \in EmittedPositions(data) :
              formData[1 + Cardinality({p \in EmittedPositions(data) : Before(p, q)})]
                  = PairOf(data, q)

\* C3: the pair of a nested container's leaf, then the pair of a later sibling
C3_Witness ==
    /\ Encoded
    /\ Len(formData) = 2
    /\ Len(PathOf(formData[1])) = 2
    /\ Len(PathOf(formData[2])) = 1
    /\ Len(data.items) = 2
    /\ data.items[1].value.kind \in {"arr", "obj"}

\* the nested value that is structurally equal to v, as decode would hold it
RECURSIVE TreeAt(_, _)
TreeAt(v, p) ==
    IF HasItems(v)
    THEN (p :> (IF v.kind = "arr" THEN Arr ELSE Obj))
         @@ [q \in UNION {DOMAIN TreeAt(ChildAt(v, i), Append(p, NameAt(v, i))) :
                              i \in 1..Len(v.items)} |->
                LET i == CHOOSE i \in 1..Len(v.items) :
                             q \in DOMAIN TreeAt(ChildAt(v, i), Append(p, NameAt(v, i)))
                IN  TreeAt(ChildAt(v, i), Append(p, NameAt(v, i)))[q]]
    ELSE (p :> [kind |-> v.kind, val |-> v.val])

TreeOf(v) == TreeAt(v, <<>>)

\* all nodes of v below the root
RECURSIVE PositionsOf(_)
PositionsOf(v) ==
    {<<>>} \cup (IF ~HasItems(v) THEN {}
                 ELSE UNION {{<<i>> \o q : q \in PositionsOf(ChildAt(v, i))} :
                                i \in 1..Len(v.items)})

\* a name: non-empty and not all digits
IsName(k) == Len(k) > 0 /\ ~TestDigits(k)

\* every mapping key is a name, every leaf a string, no container is empty
RoundTripArg(v) ==
    \A q \in PositionsOf(v) :
        LET n == NodeAt(v, q)
        IN  /\ n.kind \in {"str", "arr", "obj"}
            /\ HasItems(n) => Len(n.items) > 0
            /\ n.kind = "obj" => \A i \in 1..Len(n.items) : IsName(n.items[i].key)

NoBracketKeys(v) ==
    \A q \in PositionsOf(v) :
        LET n == NodeAt(v, q)
        IN  n.kind = "obj" =>
                \A i \in 1..Len(n.items) :
                    \A k \in 1..Len(n.items[i].key) : ~IsBracket(n.items[i].key[k])

Decoded == pc \in {"returned", "thrown"}

\* C1 as stated: for a value whose mapping keys are all names, whose leaves are
\* strings and that holds no null, no undefined and no empty container,
\* decode(encode(v)) is structurally equal to v.
C1_RoundTrip ==
    (Decoded /\ RoundTripArg(data)) => (~threw /\ result = TreeOf(data))

\* C1 as amended: the same, for names that hold no bracket.
C1_RoundTripNoBrackets ==
    (Decoded /\ RoundTripArg(data) /\ NoBracketKeys(data)) =>
        (~threw /\ result = TreeOf(data))

\* C1: a mapping that holds an array in a mapping came back
C1_Witness ==
    /\ pc = "returned"
    /\ RoundTripArg(data)
    /\ NoBracketKeys(data)
    /\ result = TreeOf(data)
    /\ \E p \in DOMAIN result : Len(p) = 3 /\ result[SubSeq(p, 1, 2)] = Arr

====
